---------------------------- MODULE Spec2Model ----------------------------
(***************************************************************************)
(* A model of decision_trees.py: the information metrics (info, entropy,   *)
(* gain), the label counter, the attribute partitioner, the attribute      *)
(* selector, the recursive tree builder decision_tree and Node.predict.    *)
(*                                                                         *)
(* Data.  An example is a dict from attribute to a boolean value, a sample *)
(* element is the tuple (example, label) (Python's x[0], x[1] are x[1],    *)
(* x[2] here), a sample is a sequence of such tuples.  An attribute test   *)
(* is a callable on a sample element; it is represented by the set of      *)
(* elements on which it returns a true value.                              *)
(*                                                                         *)
(* Numbers.  The metrics are floats in the source.  Here they are          *)
(* fixed-point integers in micro-bits (Scale = 10^6).  For every sample of *)
(* at most 8 elements the order and the equalities between the gains of    *)
(* any two splits of one sample are the same in this fixed point as in     *)
(* IEEE doubles, and so is "entropy == 0".                                 *)
(***************************************************************************)
EXTENDS Integers, Sequences, FiniteSets

\* ---------------------------------------------------------------- bounds
\* Attribute identifiers are 1..NumAttrs, compared as Python compares ints.
NumAttrs == 3
\* Longest sample handed to decision_tree.
MaxLen == 4
\* Longest sample handed to a metric function called on its own.
MaxMetricLen == 3
\* Deepest chain of nested decision_tree calls that is followed.
MaxDepth == 6

Attrs == 1..NumAttrs
Labels == {0, 1}
Examples == [Attrs -> BOOLEAN]
Pairs == Examples \X Labels

\* All sequences over S of length 0..n.
SeqsUpTo(S, n) == UNION {[1..k -> S] : k \in 0..n}

\* The orders in which a caller can supply all the attributes.
Permutations == {s \in [1..NumAttrs -> Attrs] : \A i, j \in 1..NumAttrs : s[i] = s[j] => i = j}

\* Every list of distinct attributes, the empty one included: what a caller can
\* pass to pick_best_attr.
AttributeLists ==
    {s \in SeqsUpTo(Attrs, NumAttrs) : \A i, j \in 1..Len(s) : s[i] = s[j] => i = j}

\* A fixed enumeration of the sample elements.
RECURSIVE ExampleRank(_, _)
ExampleRank(example, a) ==
    IF a = 0 THEN 0
    ELSE 2 * ExampleRank(example, a - 1) + (IF example[a] THEN 1 ELSE 0)

PairRank(x) == 2 * ExampleRank(x[1], NumAttrs) + x[2]

\* The samples of at most n elements, one per multiset: the elements are listed in
\* the order of PairRank.
RECURSIVE Samples(_)
Samples(n) ==
    IF n = 0 THEN {<<>>}
    ELSE LET shorter == Samples(n - 1)
             longest == {t \in shorter : Len(t) = n - 1}
         IN shorter \cup
            {Append(q[1], q[2]) :
                q \in {r \in longest \X Pairs :
                          n = 1 \/ PairRank(r[1][n - 1]) <= PairRank(r[2])}}

\* -------------------------------------------------------------- outcomes
\* A call either returns a value or raises.
Return(v) == [exc |-> "", val |-> v]
Raise(e) == [exc |-> e, val |-> 0]
ZeroDivisionError == "ZeroDivisionError"

\* ----------------------------------------------------- fixed-point log2
Scale == 1000000
\* round(log(k, 2) * Scale) for k = 1..9
Log2Table == <<0, 1000000, 1584963, 2000000, 2321928, 2584963, 2807355, 3000000, 3169925>>

\* log(num / den, 2)
log2_ratio(num, den) == Log2Table[num] - Log2Table[den]

\* ------------------------------------------------------------- the tests
\* generate_attr_test = lambda attr: lambda x: x[0][attr]
generate_attr_test(attr) == {x \in Pairs : x[1][attr]}

\* ------------------------------------------------------------ partitioner
\* filter(function, examples) of Python 2: the list of the elements on which
\* function is true; a callable is passed as its graph over the sample elements
filter(function, examples) == SelectSeq(examples, LAMBDA x : function[x])

\* The second filter without its "not".
apply_attribute_no_negation(examples, attribute_test) ==
    LET true == filter([x \in Pairs |-> x \in attribute_test], examples)
        false == filter([x \in Pairs |-> x \in attribute_test], examples)
    IN <<true, false>>

apply_attribute(examples, attribute_test) ==
    LET true == filter([x \in Pairs |-> x \in attribute_test], examples)
        false == filter([x \in Pairs |-> ~(x \in attribute_test)], examples)
    IN <<true, false>>

\* ---------------------------------------------------------- label counter
get_label_count(examples, truth_label) ==
    LET p == Len(SelectSeq(examples, LAMBDA x : x[2] = truth_label))
        n == Len(examples) - p
    IN <<p, n>>

\* ---------------------------------------------------------------- metrics
info(positive, negative) ==
    IF positive = 0 \/ negative = 0 THEN 0
    ELSE LET total == positive + negative
         IN (- (positive * log2_ratio(positive, total))
             - (negative * log2_ratio(negative, total))) \div total

\* t_ratio and f_ratio exchanged.
entropy_swapped(examples, attribute_test, truth_label) ==
    LET total == Len(examples)
        split == apply_attribute(examples, attribute_test)
        t == get_label_count(split[1], truth_label)
        f == get_label_count(split[2], truth_label)
    IN IF total = 0 THEN Raise(ZeroDivisionError)
       ELSE Return(((f[1] + f[2]) * info(t[1], t[2])
                    + (t[1] + t[2]) * info(f[1], f[2])) \div total)

\* An empty sample answered with 0 before the ratios are computed.
entropy_guarded(examples, attribute_test, truth_label) ==
    LET total == Len(examples)
        split == apply_attribute(examples, attribute_test)
        t == get_label_count(split[1], truth_label)
        f == get_label_count(split[2], truth_label)
    IN IF total = 0 THEN Return(0)
       ELSE Return(((t[1] + t[2]) * info(t[1], t[2])
                    + (f[1] + f[2]) * info(f[1], f[2])) \div total)

entropy(examples, attribute_test, truth_label) ==
    LET total == Len(examples)
        split == apply_attribute(examples, attribute_test)
        t == get_label_count(split[1], truth_label)
        f == get_label_count(split[2], truth_label)
    IN IF total = 0 THEN Raise(ZeroDivisionError)
       ELSE Return(((t[1] + t[2]) * info(t[1], t[2])
                    + (f[1] + f[2]) * info(f[1], f[2])) \div total)

gain(examples, attribute_test, truth_label) ==
    LET c == get_label_count(examples, truth_label)
        e == entropy(examples, attribute_test, truth_label)
    IN IF e.exc # "" THEN e
       ELSE Return(info(c[1], c[2]) - e.val)

\* ------------------------------------------------------ attribute selector
\* The tuples built as (attr, gain).
tuple_greater_attr_first(a, b) == a[2] > b[2] \/ (a[2] = b[2] /\ a[1] > b[1])

\* Python's order on the tuples (gain, attr): lexicographic.
tuple_greater(a, b) == a[1] > b[1] \/ (a[1] = b[1] /\ a[2] > b[2])

\* max(iterable): the first item no later item is greater than.
RECURSIVE max_from(_, _, _)
max_from(items, i, best) ==
    IF i > Len(items) THEN best
    ELSE max_from(items, i + 1, IF tuple_greater(items[i], best) THEN items[i] ELSE best)

max(items) == max_from(items, 2, items[1])

pick_best_attr(sample, attributes, truth_label) ==
    IF attributes = <<>> THEN Raise("ValueError")
    ELSE IF sample = <<>> THEN Raise(ZeroDivisionError)
    ELSE Return(max([i \in 1..Len(attributes) |->
                       <<gain(sample, generate_attr_test(attributes[i]), truth_label).val,
                         attributes[i]>>])[2])

\* ------------------------------------------------------------------ Node
\* A child slot holds None, a bool or a Node.
None == [kind |-> "None"]
Bool(b) == [kind |-> "bool", value |-> b]
Node(attr, attr_test, true_child, false_child) ==
    [kind |-> "Node", attr |-> attr, attr_test |-> attr_test,
     true_child |-> true_child, false_child |-> false_child]

\* ------------------------------------------------------------ the program
VARIABLES
    sample,         \* the sample given to decision_tree or to a metric function
    attributes,     \* the attributes, in the caller's iteration order
    truth_label,    \* the label counted as positive
    stack,          \* the active decision_tree calls, the innermost last
    status,         \* "running", "returned" or the exception that ended the run
    tree,           \* the Node decision_tree returned, None before
    predicted,      \* the last predict call: its argument and its result
    call,           \* the function the caller invokes, with its other arguments
    result          \* what that function returned or raised, None before

vars == <<sample, attributes, truth_label, stack, status, tree, predicted, call, result>>

\* A decision_tree(sample, attributes, generate_attr_test, truth_label) call
\* about to run line 93.
Frame(s, attrs) == [sample |-> s, attributes |-> attrs, pc |-> "select", root |-> None,
                    true_sample |-> <<>>, false_sample |-> <<>>]

Top == stack[Len(stack)]
SetTop(f) == [stack EXCEPT ![Len(stack)] = f]

\* The first label compared with the driver's truth label, 1, not with the argument.
leaf_verdict_fixed_label(sub_sample, label) == Bool(sub_sample[1][2] = 1)

\* Lines 99 and 104: the verdict of a pure sub-sample, read off its first element.
leaf_verdict(sub_sample, label) == Bool(sub_sample[1][2] = label)

\* Line 118: the driver calls decision_tree on the data set, with the attributes
\* in the order of the keys of its first example.  The data set is any sample of
\* at most MaxLen elements; the truth label is either label (the driver passes 1).
Init ==
    /\ sample \in Samples(MaxLen)
    /\ attributes \in Permutations
    /\ truth_label \in Labels
    /\ stack = <<Frame(sample, attributes)>>
    /\ status = "running"
    /\ tree = None
    /\ predicted = None
    /\ call = [fn |-> "decision_tree"]
    /\ result = None

\* Lines 93-96: select the root attribute, build the root, split the sample.
Select ==
    /\ status = "running"
    /\ Top.pc = "select"
    /\ LET root_attr == pick_best_attr(Top.sample, Top.attributes, truth_label)
       IN IF root_attr.exc # ""
          THEN /\ status' = root_attr.exc
               /\ UNCHANGED stack
          ELSE LET root == Node(root_attr.val, generate_attr_test(root_attr.val), None, None)
                   split == apply_attribute(Top.sample, generate_attr_test(root.attr))
               IN /\ stack' = SetTop([Top EXCEPT !.pc = "true", !.root = root,
                                                 !.true_sample = split[1],
                                                 !.false_sample = split[2]])
                  /\ UNCHANGED status
    /\ UNCHANGED <<sample, attributes, truth_label, tree, predicted, call, result>>

\* Lines 98-101: the true branch becomes a leaf or a recursive call.
TrueBranch ==
    /\ status = "running"
    /\ Top.pc = "true"
    /\ LET e == entropy(Top.true_sample, Top.root.attr_test, truth_label)
       IN IF e.exc # ""
          THEN /\ status' = e.exc
               /\ UNCHANGED stack
          ELSE IF e.val = 0
          THEN /\ stack' = SetTop([Top EXCEPT !.pc = "false",
                                     !.root.true_child = leaf_verdict(Top.true_sample, truth_label)])
               /\ UNCHANGED status
          ELSE /\ Len(stack) < MaxDepth
               /\ stack' = Append(SetTop([Top EXCEPT !.pc = "true_call"]),
                                  Frame(Top.true_sample, Top.attributes))
               /\ UNCHANGED status
    /\ UNCHANGED <<sample, attributes, truth_label, tree, predicted, call, result>>

\* Lines 103-106: the false branch becomes a leaf or a recursive call.
FalseBranch ==
    /\ status = "running"
    /\ Top.pc = "false"
    /\ LET e == entropy(Top.false_sample, Top.root.attr_test, truth_label)
       IN IF e.exc # ""
          THEN /\ status' = e.exc
               /\ UNCHANGED stack
          ELSE IF e.val = 0
          THEN /\ stack' = SetTop([Top EXCEPT !.pc = "return",
                                     !.root.false_child = leaf_verdict(Top.false_sample, truth_label)])
               /\ UNCHANGED status
          ELSE /\ Len(stack) < MaxDepth
               /\ stack' = Append(SetTop([Top EXCEPT !.pc = "false_call"]),
                                  Frame(Top.false_sample, Top.attributes))
               /\ UNCHANGED status
    /\ UNCHANGED <<sample, attributes, truth_label, tree, predicted, call, result>>

\* Line 108: return root to the caller, which stores it in the child it asked for.
ReturnRoot ==
    /\ status = "running"
    /\ Top.pc = "return"
    /\ IF Len(stack) = 1
       THEN /\ tree' = Top.root
            /\ status' = "returned"
            /\ stack' = <<>>
       ELSE LET caller == stack[Len(stack) - 1]
                rest == SubSeq(stack, 1, Len(stack) - 2)
            IN /\ stack' = Append(rest,
                      IF caller.pc = "true_call"
                      THEN [caller EXCEPT !.pc = "false", !.root.true_child = Top.root]
                      ELSE [caller EXCEPT !.pc = "return", !.root.false_child = Top.root])
               /\ UNCHANGED <<tree, status>>
    /\ UNCHANGED <<sample, attributes, truth_label, predicted, call, result>>

\* Node.predict, lines 80-89.  The outcome is the boolean returned and the node as
\* the call leaves it: a child that is a Node is left as its own predict call
\* leaves it.
\* The answer of a child stored in its place.
RECURSIVE predict_memo(_, _)
predict_memo(self, example) ==
    IF example \in self.attr_test
    THEN IF self.true_child.kind = "bool"
         THEN [value |-> self.true_child.value, self |-> self]
         ELSE LET child == predict_memo(self.true_child, example)
              IN [value |-> child.value,
                  self |-> [self EXCEPT !.true_child = Bool(child.value)]]
    ELSE IF self.false_child.kind = "bool"
         THEN [value |-> self.false_child.value, self |-> self]
         ELSE LET child == predict_memo(self.false_child, example)
              IN [value |-> child.value,
                  self |-> [self EXCEPT !.false_child = Bool(child.value)]]

RECURSIVE predict(_, _)
predict(self, example) ==
    IF example \in self.attr_test
    THEN IF self.true_child.kind = "bool"
         THEN [value |-> self.true_child.value, self |-> self]
         ELSE LET child == predict(self.true_child, example)
              IN [value |-> child.value, self |-> [self EXCEPT !.true_child = child.self]]
    ELSE IF self.false_child.kind = "bool"
         THEN [value |-> self.false_child.value, self |-> self]
         ELSE LET child == predict(self.false_child, example)
              IN [value |-> child.value, self |-> [self EXCEPT !.false_child = child.self]]

\* Lines 120-122: the driver predicts an element of the data set.
Predict ==
    /\ status = "returned"
    /\ \E i \in 1..Len(sample) :
          LET ex == sample[i]
              out == predict(tree, ex)
          IN /\ predicted' = [example |-> ex, value |-> out.value]
             /\ tree' = out.self
    /\ UNCHANGED <<sample, attributes, truth_label, stack, status, call, result>>

Next == Select \/ TrueBranch \/ FalseBranch \/ ReturnRoot \/ Predict

Spec == Init /\ [][Next]_vars

\* ------------------------------------------ the metric functions on their own
\* The secondary entry points, each called once by a caller with arguments of its
\* choice.  A test is any callable on a sample element: the generated ones, the
\* negation of one, and one that reads the label.
Tests == {generate_attr_test(a) : a \in Attrs}
         \cup {Pairs \ generate_attr_test(1), {x \in Pairs : x[2] = 1}}

MetricsInit ==
    /\ stack = <<>>
    /\ status = "metrics"
    /\ tree = None
    /\ predicted = None
    /\ result = None
    /\ \/ /\ call \in [fn : {"info"}, positive : 0..MaxMetricLen, negative : 0..MaxMetricLen]
          /\ sample = <<>>
          /\ attributes = <<>>
          /\ truth_label = 1
       \/ /\ call \in [fn : {"apply_attribute"}, attribute_test : Tests]
          /\ sample \in SeqsUpTo(Pairs, MaxMetricLen)
          /\ attributes = <<>>
          /\ truth_label = 1
       \/ /\ call \in [fn : {"entropy", "gain"}, attribute_test : Tests]
          /\ sample \in SeqsUpTo(Pairs, MaxMetricLen)
          /\ attributes = <<>>
          /\ truth_label \in Labels
       \/ /\ call = [fn |-> "pick_best_attr"]
          /\ sample \in SeqsUpTo(Pairs, MaxMetricLen)
          /\ attributes \in AttributeLists
          /\ truth_label \in Labels

CallInfo ==
    /\ call.fn = "info" /\ result = None
    /\ result' = Return(info(call.positive, call.negative))
    /\ UNCHANGED <<sample, attributes, truth_label, stack, status, tree, predicted, call>>

CallApplyAttribute ==
    /\ call.fn = "apply_attribute" /\ result = None
    /\ result' = Return(apply_attribute(sample, call.attribute_test))
    /\ UNCHANGED <<sample, attributes, truth_label, stack, status, tree, predicted, call>>

CallEntropy ==
    /\ call.fn = "entropy" /\ result = None
    /\ result' = entropy(sample, call.attribute_test, truth_label)
    /\ UNCHANGED <<sample, attributes, truth_label, stack, status, tree, predicted, call>>

CallGain ==
    /\ call.fn = "gain" /\ result = None
    /\ result' = gain(sample, call.attribute_test, truth_label)
    /\ UNCHANGED <<sample, attributes, truth_label, stack, status, tree, predicted, call>>

CallPickBestAttr ==
    /\ call.fn = "pick_best_attr" /\ result = None
    /\ result' = pick_best_attr(sample, attributes, truth_label)
    /\ UNCHANGED <<sample, attributes, truth_label, stack, status, tree, predicted, call>>

MetricsNext == CallInfo \/ CallApplyAttribute \/ CallEntropy \/ CallGain \/ CallPickBestAttr

SpecMetrics == MetricsInit /\ [][MetricsNext]_vars

\* ================================================================== claims
\* The elements of s on which the test is true (false), in their order in s.
Holds(x, attribute_test) == x \in attribute_test
Positive(x) == x[2] = truth_label
Done == result # None

\* How many of the first k elements of s the test is true for.
CountTrue(s, attribute_test, k) == Cardinality({j \in 1..k : Holds(s[j], attribute_test)})

\* The gain of splitting the sample on attribute a.
GainOf(a) == gain(sample, generate_attr_test(a), truth_label).val
Candidates == {attributes[i] : i \in 1..Len(attributes)}
MaxGain == CHOOSE g \in {GainOf(a) : a \in Candidates} : \A a \in Candidates : g >= GainOf(a)
PickReturned ==
    /\ call.fn = "pick_best_attr" /\ Done
    /\ sample # <<>> /\ attributes # <<>>

\* C2: for a non-empty sample and non-empty attributes, pick_best_attr returns a
\* member of attributes whose gain is at least the gain of every candidate.
C2_PickMaximalGain ==
    PickReturned =>
        /\ result.exc = ""
        /\ result.val \in Candidates
        /\ \A a \in Candidates : GainOf(result.val) >= GainOf(a)

\* Reached: a selection among several attributes, one of which gains strictly less.
C2_Witness ==
    /\ PickReturned
    /\ Len(attributes) >= 2
    /\ \E a \in Candidates : GainOf(a) < GainOf(result.val)
    /\ GainOf(result.val) < Scale

\* The attribute met first, in the caller's iteration order, among those of
\* maximal gain.
FirstOfMaxGain ==
    attributes[CHOOSE i \in 1..Len(attributes) :
                  /\ GainOf(attributes[i]) = MaxGain
                  /\ \A j \in 1..(i - 1) : GainOf(attributes[j]) # MaxGain]

\* C3: among the attributes of maximal gain, pick_best_attr returns the one met
\* first in the caller's iteration order, whatever the identifiers are.
C3_FirstEncounteredWins == PickReturned => result.val = FirstOfMaxGain

\* C4: apply_attribute returns (true, false) where the k-th element of examples is
\* the next element of true if the test holds for it and the next element of
\* false otherwise: every element lands in exactly one subset, in its original
\* relative order, and the lengths add up.
C4_StablePartition ==
    (call.fn = "apply_attribute" /\ Done) =>
        LET true == result.val[1]
            false == result.val[2]
            t == call.attribute_test
        IN /\ Len(true) + Len(false) = Len(sample)
           /\ Len(true) = CountTrue(sample, t, Len(sample))
           /\ \A k \in 1..Len(sample) :
                 IF Holds(sample[k], t)
                 THEN true[CountTrue(sample, t, k)] = sample[k]
                 ELSE false[k - CountTrue(sample, t, k)] = sample[k]

\* Reached: a split that interleaves the two subsets, each with two different
\* elements.
C4_Witness ==
    /\ call.fn = "apply_attribute" /\ Done
    /\ Len(sample) >= 3
    /\ Holds(sample[1], call.attribute_test)
    /\ ~Holds(sample[2], call.attribute_test)
    /\ Holds(sample[3], call.attribute_test)
    /\ sample[1] # sample[3]
    /\ result.val[1] = <<sample[1], sample[3]>>

\* A metric function was called on an empty sample.
EmptySampleCall ==
    \/ call.fn \in {"entropy", "gain"} /\ sample = <<>>
    \/ call.fn = "info" /\ call.positive = 0 /\ call.negative = 0

\* C6 as stated: entropy, gain and info all end in an error on an empty sample.
C6_EmptySampleRejected == (EmptySampleCall /\ Done) => result.exc # ""

\* C6 as amended: entropy and gain raise ZeroDivisionError on an empty sample;
\* info(0, 0) returns 0.
C6_EmptySampleOutcome ==
    (EmptySampleCall /\ Done) =>
        IF call.fn = "info" THEN result = Return(0)
        ELSE result = Raise(ZeroDivisionError)

\* Reached: gain called on an empty sample has raised.
C6_Witness ==
    /\ call.fn = "gain" /\ sample = <<>> /\ Done
    /\ result.exc = ZeroDivisionError

\* ------------------------------------------------------ claims on the builder
\* All elements of s stand in the same relation to the truth label.
Pure(s) == \A i, j \in 1..Len(s) : Positive(s[i]) <=> Positive(s[j])

TrueSide(s, attribute_test) == SelectSeq(s, LAMBDA x : Holds(x, attribute_test))
FalseSide(s, attribute_test) == SelectSeq(s, LAMBDA x : ~Holds(x, attribute_test))

\* Two elements with the same attribute values and labels that differ in their
\* relation to the truth label: no attribute test tells them apart.
Conflicting ==
    \E i, j \in 1..Len(sample) :
        /\ sample[i][1] = sample[j][1]
        /\ Positive(sample[i]) # Positive(sample[j])

\* Any two elements whose labels differ in their relation to the truth label are
\* told apart by the test of at least one attribute.
Separable ==
    \A i, j \in 1..Len(sample) :
        Positive(sample[i]) # Positive(sample[j]) =>
            \E a \in Candidates :
                Holds(sample[i], generate_attr_test(a)) # Holds(sample[j], generate_attr_test(a))

\* C1: when decision_tree has returned a tree, predict on each training element
\* returns True exactly when the element's label equals truth_label.
C1_TrainingSetFit ==
    status = "returned" =>
        /\ \A i \in 1..Len(sample) : predict(tree, sample[i]).value = Positive(sample[i])
        /\ predicted # None => predicted.value = Positive(predicted.example)

\* Reached: a prediction of True made through a child that is a Node, on a sample
\* with elements of both classes on the root's true side.
C1_Witness ==
    /\ status = "returned"
    /\ predicted # None
    /\ predicted.value
    /\ Holds(predicted.example, tree.attr_test)
    /\ tree.true_child.kind = "Node"

\* The sample of a recursive call is the sub-sample of the branch its caller is
\* waiting for.
CalledOn(k) ==
    IF stack[k - 1].pc = "true_call" THEN stack[k - 1].true_sample
    ELSE stack[k - 1].false_sample

\* The child stored for a handled branch with sub-sample sub.
LeafOrSubtree(f, sub, child) ==
    /\ sub # <<>>
    /\ IF Pure(sub) THEN child = Bool(Positive(sub[1]))
       ELSE /\ child.kind = "Node"
            /\ child.attr = pick_best_attr(sub, f.attributes, truth_label).val

\* C8: a handled branch with a non-empty sub-sample holds a boolean leaf exactly
\* when the sub-sample is pure, the leaf being (first label == truth_label), and
\* otherwise the Node decision_tree built for that sub-sample with the same
\* attributes; decision_tree is never called recursively on a pure sub-sample.
C8_LeafRule ==
    \A k \in 1..Len(stack) :
        LET f == stack[k]
        IN /\ k > 1 => /\ ~Pure(f.sample)
                       /\ f.sample = CalledOn(k)
                       /\ f.attributes = stack[k - 1].attributes
                       /\ f.attributes = attributes
           /\ f.pc = "true_call" => ~Pure(f.true_sample) /\ k < Len(stack)
           /\ f.pc = "false_call" => ~Pure(f.false_sample) /\ k < Len(stack)
           /\ f.pc \in {"false", "false_call", "return"} =>
                  LeafOrSubtree(f, f.true_sample, f.root.true_child)
           /\ f.pc = "return" => LeafOrSubtree(f, f.false_sample, f.root.false_child)

\* Reached: a call about to return whose true child is the leaf of a one-element
\* sub-sample and whose false child is a returned subtree.
C8_Witness ==
    /\ status = "running"
    /\ Len(stack) = 1
    /\ Top.pc = "return"
    /\ Len(Top.true_sample) = 1
    /\ Top.root.true_child.kind = "bool"
    /\ Top.root.false_child.kind = "Node"

\* Every node of the tree splits the sub-sample that reaches it into two
\* non-empty parts and has both children set.
RECURSIVE WellSplit(_, _)
WellSplit(node, s) ==
    /\ node.kind = "Node"
    /\ TrueSide(s, node.attr_test) # <<>>
    /\ FalseSide(s, node.attr_test) # <<>>
    /\ node.true_child.kind \in {"bool", "Node"}
    /\ node.false_child.kind \in {"bool", "Node"}
    /\ node.true_child.kind = "Node" =>
           WellSplit(node.true_child, TrueSide(s, node.attr_test))
    /\ node.false_child.kind = "Node" =>
           WellSplit(node.false_child, FalseSide(s, node.attr_test))

\* C9: in a returned tree every node's test splits the sub-sample that reached it
\* into two non-empty parts and both children are set; a call whose selected
\* attribute sends all of its sample to one side never reaches its return: it is
\* at the entropy that divides by zero, or in the recursive call on the true
\* side, which is its own sample.
C9_SplitsAreProper ==
    /\ status = "returned" => WellSplit(tree, sample) /\ Len(sample) >= 2
    /\ \A k \in 1..Len(stack) :
          LET f == stack[k]
          IN (f.pc # "select" /\ (f.true_sample = <<>> \/ f.false_sample = <<>>)) =>
                 /\ f.pc \in {"true", "true_call", "false"}
                 /\ f.pc = "true_call" => f.true_sample = f.sample

\* Reached: a returned tree of two levels.
C9_Witness ==
    /\ status = "returned"
    /\ tree.true_child.kind = "Node"
    /\ tree.false_child.kind = "Node"

\* C5 as stated: on a sample with conflicting duplicates decision_tree only
\* recurses: it neither returns a tree nor raises an error.
C5_OnlyRecurses == Conflicting => status = "running"

\* C5 as amended: on a sample with conflicting duplicates decision_tree never
\* returns a tree: it raises ZeroDivisionError (at line 98, the true side of a
\* split being empty), or it keeps calling itself, and a chain of calls that
\* reaches the depth followed here repeats one impure sample.
C5_NeverReturnsATree ==
    Conflicting =>
        /\ status \in {"running", ZeroDivisionError}
        /\ tree = None
        /\ status = "running" => stack # <<>>
        /\ status = ZeroDivisionError => Top.pc = "true" /\ Top.true_sample = <<>>
        /\ Len(stack) = MaxDepth =>
               /\ Top.sample = stack[MaxDepth - 1].sample
               /\ ~Pure(Top.sample)

\* Reached: the chain of calls on conflicting duplicates at the depth followed.
C5_Witness ==
    /\ Conflicting
    /\ status = "running"
    /\ Len(stack) = MaxDepth
    /\ Top.pc = "true"
    /\ Top.sample = stack[1].sample

\* C10: on a separable sample every recursive call receives a strictly smaller
\* sample than its caller, so the calls nest at most len(sample) deep.
C10_RecursiveCallsShrink ==
    (Separable /\ sample # <<>>) =>
        /\ \A k \in 2..Len(stack) : Len(stack[k].sample) < Len(stack[k - 1].sample)
        /\ Len(stack) <= Len(sample)

\* C7: once the tree is built, a predict call leaves every node of it unchanged,
\* and a call with the example of the previous call returns the same boolean.
C7_PredictIsPure ==
    [][status = "returned" =>
          /\ tree' = tree
          /\ (predicted # None /\ predicted'.example = predicted.example) =>
                 predicted'.value = predicted.value]_vars

\* Reached: a prediction that went through a child that is a Node.
C7_Witness ==
    /\ status = "returned"
    /\ predicted # None
    /\ ~Holds(predicted.example, tree.attr_test)
    /\ tree.false_child.kind = "Node"

=============================================================================
